---- MODULE Spec2Model ----
(***************************************************************************)
(* Model of the actuator controller (src/src/main.rs): the terminal set-up *)
(* and restore sequence of main, the Interaction Loop, the Command         *)
(* Dispatcher task and the Telemetry Reader task, with the three bounded   *)
(* mpsc channels and the RwLock around the serial port.                    *)
(***************************************************************************)
EXTENDS Integers, Sequences, FiniteSets, TLC

\* ------------------------------------------------------------------ bounds
\* Key events that carry a command, per run of the full program.
MaxKeys == 3
\* Key events that carry a command, per run started from a reachable view-model.
SpeedKeys == 1
\* Modelled capacity of mpsc::channel::<ActuatorCommand>(100).
CmdCap == 2
\* Modelled capacity of mpsc::channel::<String>(100).
StatusCap == 2
\* Modelled capacity of mpsc::channel::<f64>(10).
ActuatorCap == 2
\* Key events that carry a command, per run with a sending device.
TelemetryKeys == 1
\* Key events that carry a command, per run started at either direction.
DirKeys == 2
\* Telemetry frames the device sends in one run.
MaxFrames == 3

\* ------------------------------------------------------- program constants
\* App::new: max_speed: 65535
max_speed == 65535
\* KeyCode::Up / KeyCode::Down: increase_speed(1000) / decrease_speed(1000)
ArrowStep == 1000
\* KeyCode::Char('+') / Char('-'): increase_speed(5000) / decrease_speed(5000)
CharStep == 5000
\* let mut buf = [0u8;8]
FrameLen == 8

U16 == 2^16

Min(a, b) == IF a <= b THEN a ELSE b

\* u32 `+`: its operands here are a speed of at most max_speed and a step of
\* at most CharStep, so the sum stays far below 2^32 and never wraps.
AddU32(a, b) == a + b
\* u32::saturating_sub
SaturatingSub(a, b) == IF a >= b THEN a - b ELSE 0

\* Mutant of AsU16: the speed cast `as u8`.
AsU8(x) == x % 2^8
\* `as u16`
AsU16(x) == x % U16

\* ------------------------------------------------------------ data model
Actuators == {"M1", "M2"}
Directions == {"Forward", "Backward"}

\* ActuatorCommand::SetSpeed(u16, Actuator) / SetDirection(Direction, Actuator)
SetSpeed(speed, actuator) ==
    [op |-> "SetSpeed", speed |-> speed, dir |-> "-", actuator |-> actuator]
SetDirection(dir, actuator) ==
    [op |-> "SetDirection", speed |-> 0, dir |-> dir, actuator |-> actuator]
NoCommand == [op |-> "none", speed |-> 0, dir |-> "-", actuator |-> "-"]

\* The strings sent on the status channel and stored in app.status_message.
StatusReady == [kind |-> "Ready", speed |-> 0, text |-> "-"]
StatusSerialError == [kind |-> "Serial error", speed |-> 0, text |-> "-"]
StatusSetSpeed(speed) == [kind |-> "Set speed to", speed |-> speed, text |-> "-"]
StatusSetDirection(dir) ==
    [kind |-> "Set direction to", speed |-> 0,
     text |-> IF dir = "Forward" THEN "forward" ELSE "backward"]
StatusSwitched(actuator) == [kind |-> "Switched to", speed |-> 0, text |-> actuator]

\* A decoded telemetry value: the 8 bytes read began `shift` bytes into the
\* device's frame number `frame` (shift = 0: exactly that frame). 0.0 is
\* frame 0.
Sample(frame, shift) == [frame |-> frame, shift |-> shift]

\* App::new
AppNew ==
    [speed |-> 0, direction |-> "Forward", max_speed |-> max_speed,
     status_message |-> StatusReady, actuator |-> "M1",
     actuator_len_meters |-> Sample(0, 0)]

\* Mutant of increase_speed: the `.min(self.max_speed)` left out.
increase_speed_unclamped(a, amount) ==
    [a EXCEPT !.speed = AddU32(a.speed, amount)]
\* App::increase_speed
increase_speed(a, amount) ==
    [a EXCEPT !.speed = Min(AddU32(a.speed, amount), a.max_speed)]

\* Mutant of decrease_speed: a plain `-` in place of saturating_sub.
decrease_speed_unsaturated(a, amount) ==
    [a EXCEPT !.speed = a.speed - amount]
\* App::decrease_speed
decrease_speed(a, amount) ==
    [a EXCEPT !.speed = SaturatingSub(a.speed, amount)]

\* Mutant of set_direction: the assignment left out.
set_direction_skipped(a, dir) == a
\* App::set_direction
set_direction(a, dir) == [a EXCEPT !.direction = dir]

\* `app.speed = 0` of the 's' and 'a' arms
stop_speed(a) == [a EXCEPT !.speed = 0]

\* Mutant of switch_actuator: the status formatted before the toggle.
switch_actuator_stale_status(a) ==
    LET other == IF a.actuator = "M1" THEN "M2" ELSE "M1"
    IN  [a EXCEPT !.actuator = other,
                  !.status_message = StatusSwitched(a.actuator)]
\* The if/else of the 'a' arm and the status it stores.
switch_actuator(a) ==
    LET other == IF a.actuator = "M1" THEN "M2" ELSE "M1"
    IN  [a EXCEPT !.actuator = other, !.status_message = StatusSwitched(other)]

\* --------------------------------------------------------------- state
VARIABLES
    mainpc,         \* where main is
    why,            \* what led main into the restore sequence
    result,         \* how main ended: "none", "Ok", "Err", "Panic"
    term,           \* the terminal: raw mode, alternate screen, mouse, cursor
    drawn,          \* a frame has been drawn
    printed,        \* the message printed with eprintln!
    app,            \* the view-model
    pending,        \* the key and command of a tx.send(..).await in progress
    cmd_chan,       \* (tx, rx)
    status_chan,    \* (status_tx, status_rx)
    actuator_chan,  \* (actuator_tx, actuator_rx)
    port,           \* holder of the RwLock around the serial port
    dpc,            \* where the dispatcher task is
    inhand,         \* the command the dispatcher received
    dmsg,           \* the status the dispatcher is sending
    rpc,            \* where the reader task is
    rval,           \* the value the reader is sending
    dev_sent,       \* bytes the device has sent so far
    dev_read,       \* bytes read_exact has consumed so far
    nkeys,          \* key events that carried a command
    scenario,       \* how far the keys so far follow ScenarioKeys (-1: not)
    sent,           \* history: the commands enqueued, in order
    attempted,      \* history: the write attempts, in order
    edition         \* the Rust edition the crate is built with

vars == <<mainpc, why, result, term, drawn, printed, app, pending,
          cmd_chan, status_chan, actuator_chan, port, dpc, inhand, dmsg,
          rpc, rval, dev_sent, dev_read, nkeys, scenario, sent, attempted,
          edition>>

mainvars == <<mainpc, why, result, term, drawn, printed, app, pending,
              nkeys, scenario>>
dispvars == <<dpc, inhand, dmsg, attempted, edition>>
readvars == <<rpc, rval, dev_read>>

\* The edition decides how long the temporaries of an `if let` scrutinee
\* live: to the end of the whole if/else (2021 and before), or to the end of
\* the `if` block, being dropped before the `else` block (2024).  No
\* Cargo.toml comes with main.rs, so a build may be either.
Editions == {"2021", "2024"}

TermInitial == [raw |-> FALSE, alt |-> FALSE, mouse |-> FALSE, cursor |-> TRUE]

Init ==
    /\ mainpc = "enable_raw"
    /\ why = "none"
    /\ result = "none"
    /\ term = TermInitial
    /\ drawn = FALSE
    /\ printed = "none"
    /\ app = AppNew
    /\ pending = [key |-> "-", cmd |-> NoCommand]
    /\ cmd_chan = <<>>
    /\ status_chan = <<>>
    /\ actuator_chan = <<>>
    /\ port = "free"
    /\ dpc = "unspawned"
    /\ inhand = NoCommand
    /\ dmsg = StatusReady
    /\ rpc = "unspawned"
    /\ rval = Sample(0, 0)
    /\ dev_sent = 0
    /\ dev_read = 0
    /\ nkeys = 0
    /\ scenario = 0
    /\ sent = <<>>
    /\ attempted = <<>>
    /\ edition \in Editions

\* ---------------------------------------------------------------- main
\* `?` on a call that returned Err: main returns the error at once.
ReturnErr ==
    /\ mainpc' = "done"
    /\ result' = "Err"

\* enable_raw_mode()?
EnableRawMode ==
    /\ mainpc = "enable_raw"
    /\ \E ok \in BOOLEAN :
          IF ok
          THEN /\ term' = [term EXCEPT !.raw = TRUE]
               /\ mainpc' = "enter_screen"
               /\ UNCHANGED result
          ELSE /\ ReturnErr
               /\ UNCHANGED term
    /\ UNCHANGED <<why, drawn, printed, app, pending, nkeys, scenario, cmd_chan,
                   status_chan, actuator_chan, port, dispvars, readvars,
                   dev_sent, sent>>

\* execute!(stdout, EnterAlternateScreen, EnableMouseCapture)?
EnterScreen ==
    /\ mainpc = "enter_screen"
    /\ \E ok \in BOOLEAN :
          IF ok
          THEN /\ term' = [term EXCEPT !.alt = TRUE, !.mouse = TRUE]
               /\ mainpc' = "new_terminal"
               /\ UNCHANGED result
          ELSE /\ ReturnErr
               /\ UNCHANGED term
    /\ UNCHANGED <<why, drawn, printed, app, pending, nkeys, scenario, cmd_chan,
                   status_chan, actuator_chan, port, dispvars, readvars,
                   dev_sent, sent>>

\* Terminal::new(backend)?
NewTerminal ==
    /\ mainpc = "new_terminal"
    /\ \E ok \in BOOLEAN :
          IF ok
          THEN /\ mainpc' = "args"
               /\ UNCHANGED result
          ELSE ReturnErr
    /\ UNCHANGED <<why, term, drawn, printed, app, pending, nkeys, scenario, cmd_chan,
                   status_chan, actuator_chan, port, dispvars, readvars,
                   dev_sent, sent>>

\* let Some(port_path) = binding.get(1) else { restore; eprintln; return Ok }
CheckArgs ==
    /\ mainpc = "args"
    /\ \E given \in BOOLEAN :
          IF given
          THEN /\ mainpc' = "open_port"
               /\ UNCHANGED why
          ELSE /\ mainpc' = "disable_raw"
               /\ why' = "noarg"
    /\ UNCHANGED <<result, term, drawn, printed, app, pending, nkeys, scenario,
                   cmd_chan, status_chan, actuator_chan, port, dispvars,
                   readvars, dev_sent, sent>>

\* tokio_serial::new(port_path, 9600).open_native_async(), then on Ok the two
\* tokio::spawn calls and App::new().
OpenPort ==
    /\ mainpc = "open_port"
    /\ \E ok \in BOOLEAN :
          IF ok
          THEN /\ mainpc' = "drain_status"
               /\ dpc' = "recv"
               /\ rpc' = "sleep"
               /\ app' = AppNew
               /\ UNCHANGED why
          ELSE /\ mainpc' = "disable_raw"
               /\ why' = "openfail"
               /\ UNCHANGED <<dpc, rpc, app>>
    /\ UNCHANGED <<result, term, drawn, printed, pending, nkeys, scenario,
                   cmd_chan, status_chan, actuator_chan, port, inhand, dmsg,
                   attempted, rval, dev_read, dev_sent, sent,
                   edition>>

\* Mutant of DrainStatus: the status channel never drained.
DrainStatus_Skipped ==
    /\ mainpc = "drain_status"
    /\ mainpc' = "drain_actuator"
    /\ UNCHANGED <<why, result, term, drawn, printed, pending, nkeys, scenario,
                   app, status_chan, cmd_chan, actuator_chan, port, dispvars,
                   readvars, dev_sent, sent>>
\* if let Ok(msg) = status_rx.try_recv() { app.status_message = msg; }
DrainStatus ==
    /\ mainpc = "drain_status"
    /\ IF status_chan # <<>>
       THEN /\ app' = [app EXCEPT !.status_message = Head(status_chan)]
            /\ status_chan' = Tail(status_chan)
       ELSE UNCHANGED <<app, status_chan>>
    /\ mainpc' = "drain_actuator"
    /\ UNCHANGED <<why, result, term, drawn, printed, pending, nkeys, scenario,
                   cmd_chan, actuator_chan, port, dispvars, readvars,
                   dev_sent, sent>>

\* if let Ok(msg) = actuator_rx.try_recv() { app.actuator_len_meters = msg; }
DrainActuator ==
    /\ mainpc = "drain_actuator"
    /\ IF actuator_chan # <<>>
       THEN /\ app' = [app EXCEPT !.actuator_len_meters = Head(actuator_chan)]
            /\ actuator_chan' = Tail(actuator_chan)
       ELSE UNCHANGED <<app, actuator_chan>>
    /\ mainpc' = "draw"
    /\ UNCHANGED <<why, result, term, drawn, printed, pending, nkeys, scenario,
                   cmd_chan, status_chan, port, dispvars, readvars,
                   dev_sent, sent>>

\* terminal.draw(|f| { .. })?  The closure sets no cursor position, so a
\* completed draw leaves the cursor hidden.
Draw ==
    /\ mainpc = "draw"
    /\ \E ok \in BOOLEAN :
          IF ok
          THEN /\ drawn' = TRUE
               /\ term' = [term EXCEPT !.cursor = FALSE]
               /\ mainpc' = "poll"
               /\ UNCHANGED result
          ELSE /\ ReturnErr
               /\ UNCHANGED <<drawn, term>>
    /\ UNCHANGED <<why, printed, app, pending, nkeys, scenario, cmd_chan, status_chan,
                   actuator_chan, port, dispvars, readvars, dev_sent, sent>>

\* if event::poll(Duration::from_millis(100))? { .. }
Poll ==
    /\ mainpc = "poll"
    /\ \E r \in {"err", "timeout", "ready"} :
          IF r = "err"
          THEN ReturnErr
          ELSE /\ mainpc' = IF r = "ready" THEN "read" ELSE "drain_status"
               /\ UNCHANGED result
    /\ UNCHANGED <<why, term, drawn, printed, app, pending, nkeys, scenario, cmd_chan,
                   status_chan, actuator_chan, port, dispvars, readvars,
                   dev_sent, sent>>

\* event::read()? returned Err
ReadError ==
    /\ mainpc = "read"
    /\ ReturnErr
    /\ UNCHANGED <<why, term, drawn, printed, app, pending, nkeys, scenario, cmd_chan,
                   status_chan, actuator_chan, port, dispvars, readvars,
                   dev_sent, sent>>

\* event::read()? returned an event that is no key (mouse, resize), or a key
\* of the `_ => {}` arm.
ReadOther ==
    /\ mainpc = "read"
    /\ mainpc' = "drain_status"
    /\ UNCHANGED <<why, result, term, drawn, printed, app, pending,
                   nkeys, scenario, cmd_chan, status_chan, actuator_chan, port,
                   dispvars, readvars, dev_sent, sent>>

\* KeyCode::Char('q') => break
KeyQuit ==
    /\ mainpc = "read"
    /\ mainpc' = "disable_raw"
    /\ why' = "quit"
    /\ UNCHANGED <<result, term, drawn, printed, app, pending, nkeys, scenario,
                   cmd_chan, status_chan, actuator_chan, port, dispvars,
                   readvars, dev_sent, sent>>

\* The scenario of the specification's section 8: increase-speed,
\* increase-speed, '+' from the initial state.
ScenarioKeys == <<"Up", "Up", "+">>
Follow(n, key) ==
    IF n >= 0 /\ n < Len(ScenarioKeys) /\ ScenarioKeys[n + 1] = key
    THEN n + 1 ELSE -1

\* What an arm does after its tx.send(..).await returned.
AfterSend(key, a) == IF key = "a" THEN switch_actuator(a) ELSE a

\* An arm with a command: the view-model update `a`, then
\* `let _ = tx.send(cmd).await`, which completes at once when the channel has
\* room and otherwise waits for room, then the rest of the arm.
SendCommand(budget, key, a, cmd) ==
    /\ mainpc = "read"
    /\ nkeys < budget
    /\ nkeys' = nkeys + 1
    /\ scenario' = Follow(scenario, key)
    /\ IF Len(cmd_chan) < CmdCap
       THEN /\ cmd_chan' = Append(cmd_chan, cmd)
            /\ sent' = Append(sent, cmd)
            /\ app' = AfterSend(key, a)
            /\ mainpc' = "drain_status"
            /\ UNCHANGED pending
       ELSE /\ app' = a
            /\ pending' = [key |-> key, cmd |-> cmd]
            /\ mainpc' = "send"
            /\ UNCHANGED <<cmd_chan, sent>>
    /\ UNCHANGED <<why, result, term, drawn, printed, status_chan,
                   actuator_chan, port, dispvars, readvars, dev_sent>>

\* KeyCode::Char('s')
KeyStop(budget) ==
    LET a == stop_speed(app)
    IN  SendCommand(budget, "s", a, SetSpeed(0, a.actuator))

\* KeyCode::Up
KeyUp(budget) ==
    LET a == increase_speed(app, ArrowStep)
    IN  SendCommand(budget, "Up", a, SetSpeed(AsU16(a.speed), a.actuator))

\* KeyCode::Down
KeyDown(budget) ==
    LET a == decrease_speed(app, ArrowStep)
    IN  SendCommand(budget, "Down", a, SetSpeed(AsU16(a.speed), a.actuator))

\* KeyCode::Left
KeyLeft(budget) ==
    LET a == set_direction(app, "Backward")
    IN  SendCommand(budget, "Left", a, SetDirection("Backward", a.actuator))

\* KeyCode::Right
KeyRight(budget) ==
    LET a == set_direction(app, "Forward")
    IN  SendCommand(budget, "Right", a, SetDirection("Forward", a.actuator))

\* KeyCode::Char('+')
KeyPlus(budget) ==
    LET a == increase_speed(app, CharStep)
    IN  SendCommand(budget, "+", a, SetSpeed(AsU16(a.speed), a.actuator))

\* KeyCode::Char('-')
KeyMinus(budget) ==
    LET a == decrease_speed(app, CharStep)
    IN  SendCommand(budget, "-", a, SetSpeed(AsU16(a.speed), a.actuator))

\* Mutant of KeySwitch: the selection toggled before the command is built.
KeySwitch_ToggleFirst(budget) ==
    LET a == stop_speed(app)
        b == switch_actuator(a)
    IN  SendCommand(budget, "a", a, SetSpeed(AsU16(a.speed), b.actuator))
\* KeyCode::Char('a')
KeySwitch(budget) ==
    LET a == stop_speed(app)
    IN  SendCommand(budget, "a", a, SetSpeed(AsU16(a.speed), a.actuator))

\* A tx.send(..).await that found the channel full completes once the
\* dispatcher has made room; the arm then runs to its end.
SendResume ==
    /\ mainpc = "send"
    /\ Len(cmd_chan) < CmdCap
    /\ cmd_chan' = Append(cmd_chan, pending.cmd)
    /\ sent' = Append(sent, pending.cmd)
    /\ app' = AfterSend(pending.key, app)
    /\ pending' = [key |-> "-", cmd |-> NoCommand]
    /\ mainpc' = "drain_status"
    /\ UNCHANGED <<why, result, term, drawn, printed, nkeys, scenario,
                   status_chan, actuator_chan, port, dispvars, readvars,
                   dev_sent>>

\* disable_raw_mode()? of the three restore sequences
DisableRawMode ==
    /\ mainpc = "disable_raw"
    /\ \E ok \in BOOLEAN :
          IF ok
          THEN /\ term' = [term EXCEPT !.raw = FALSE]
               /\ mainpc' = "leave_screen"
               /\ UNCHANGED result
          ELSE /\ ReturnErr
               /\ UNCHANGED term
    /\ UNCHANGED <<why, drawn, printed, app, pending, nkeys, scenario, cmd_chan,
                   status_chan, actuator_chan, port, dispvars, readvars,
                   dev_sent, sent>>

\* execute!(terminal.backend_mut(), LeaveAlternateScreen, DisableMouseCapture)?
LeaveScreen ==
    /\ mainpc = "leave_screen"
    /\ \E ok \in BOOLEAN :
          IF ok
          THEN /\ term' = [term EXCEPT !.alt = FALSE, !.mouse = FALSE]
               /\ mainpc' = "show_cursor"
               /\ UNCHANGED result
          ELSE /\ ReturnErr
               /\ UNCHANGED term
    /\ UNCHANGED <<why, drawn, printed, app, pending, nkeys, scenario, cmd_chan,
                   status_chan, actuator_chan, port, dispvars, readvars,
                   dev_sent, sent>>

\* terminal.show_cursor()?, then after the loop `Ok(())`, and on the two
\* start-up paths the eprintln! that comes before `return Ok(())`.
ShowCursor ==
    /\ mainpc = "show_cursor"
    /\ \E ok \in BOOLEAN :
          IF ok
          THEN /\ term' = [term EXCEPT !.cursor = TRUE]
               /\ IF why = "quit"
                  THEN /\ mainpc' = "done"
                       /\ result' = "Ok"
                  ELSE /\ mainpc' = "eprintln"
                       /\ UNCHANGED result
          ELSE /\ ReturnErr
               /\ UNCHANGED term
    /\ UNCHANGED <<why, drawn, printed, app, pending, nkeys, scenario, cmd_chan,
                   status_chan, actuator_chan, port, dispvars, readvars,
                   dev_sent, sent>>

\* eprintln!(..); return Ok(());  eprintln! panics when the write to stderr
\* fails: main then unwinds (exit status 101) with nothing printed.
PrintAndReturn ==
    /\ mainpc = "eprintln"
    /\ \E ok \in BOOLEAN :
          IF ok
          THEN /\ printed' = IF why = "noarg" THEN "usage" ELSE "open error"
               /\ result' = "Ok"
          ELSE /\ result' = "Panic"
               /\ UNCHANGED printed
    /\ mainpc' = "done"
    /\ UNCHANGED <<why, term, drawn, app, pending, nkeys, scenario, cmd_chan,
                   status_chan, actuator_chan, port, dispvars, readvars,
                   dev_sent, sent>>

\* The runtime, and with it both spawned tasks, lives until main returns.
Running == mainpc # "done"

\* ----------------------------------------------------- command dispatcher
\* Mutant of DispRecv: the backlog discarded, only the newest command kept.
DispRecv_KeepLatest ==
    /\ Running
    /\ dpc = "recv"
    /\ cmd_chan # <<>>
    /\ inhand' = cmd_chan[Len(cmd_chan)]
    /\ cmd_chan' = <<>>
    /\ dpc' = "lock"
    /\ UNCHANGED <<mainvars, status_chan, actuator_chan, port, dmsg,
                   attempted, readvars, dev_sent, sent,
                   edition>>
\* Mutant of DispRecv: the newest command taken first.
DispRecv_Newest ==
    /\ Running
    /\ dpc = "recv"
    /\ cmd_chan # <<>>
    /\ inhand' = cmd_chan[Len(cmd_chan)]
    /\ cmd_chan' = SubSeq(cmd_chan, 1, Len(cmd_chan) - 1)
    /\ dpc' = "lock"
    /\ UNCHANGED <<mainvars, status_chan, actuator_chan, port, dmsg,
                   attempted, readvars, dev_sent, sent,
                   edition>>
\* while let Some(cmd) = rx.recv().await
DispRecv ==
    /\ Running
    /\ dpc = "recv"
    /\ cmd_chan # <<>>
    /\ inhand' = Head(cmd_chan)
    /\ cmd_chan' = Tail(cmd_chan)
    /\ dpc' = "lock"
    /\ UNCHANGED <<mainvars, status_chan, actuator_chan, port, dmsg,
                   attempted, readvars, dev_sent, sent,
                   edition>>

\* Mutant of DispAcquire: the port taken without waiting for the lock.
DispAcquire_NoWait ==
    /\ Running
    /\ dpc = "lock"
    /\ port' = "dispatcher"
    /\ dpc' = "write"
    /\ UNCHANGED <<mainvars, cmd_chan, status_chan, actuator_chan, inhand,
                   dmsg, attempted, readvars, dev_sent, sent,
                   edition>>
\* port.write().await: the write half of the RwLock is granted.
DispAcquire ==
    /\ Running
    /\ dpc = "lock"
    /\ port = "free"
    /\ port' = "dispatcher"
    /\ dpc' = "write"
    /\ UNCHANGED <<mainvars, cmd_chan, status_chan, actuator_chan, inhand,
                   dmsg, attempted, readvars, dev_sent, sent,
                   edition>>

\* Mutant of DispStatus: the effect reported whatever try_write returned.
DispStatus_IgnoresError(cmd, ok) ==
    IF cmd.op = "SetSpeed" THEN StatusSetSpeed(cmd.speed)
    ELSE StatusSetDirection(cmd.dir)
\* The status each arm of `match cmd` formats for the outcome of try_write.
DispStatus(cmd, ok) ==
    IF ~ok THEN StatusSerialError
    ELSE IF cmd.op = "SetSpeed" THEN StatusSetSpeed(cmd.speed)
    ELSE StatusSetDirection(cmd.dir)

\* The holder of the port once try_write has returned.  The write guard is
\* a temporary of the `if let Err(e) = ..` scrutinee: in the Err branch it
\* lives on while the status is sent; in the else branch it lives on too
\* when built as edition 2021, and has been dropped when built as 2024.
GuardAfterWrite(ok) ==
    IF ok /\ edition = "2024" THEN "free" ELSE "dispatcher"

\* Mutant of DispWrite: a failed write ends the task.
DispWrite_FailStops ==
    /\ Running
    /\ dpc = "write"
    /\ \E ok \in BOOLEAN :
          /\ attempted' = Append(attempted, [cmd |-> inhand, ok |-> ok])
          /\ dmsg' = DispStatus(inhand, ok)
          /\ dpc' = IF ok THEN "status" ELSE "stopped"
          /\ port' = IF ok THEN GuardAfterWrite(ok) ELSE "free"
    /\ UNCHANGED <<mainvars, cmd_chan, status_chan, actuator_chan,
                   inhand, readvars, dev_sent, sent, edition>>
\* .try_write(&bytes) under the guard: one attempt, Ok or Err.
DispWrite ==
    /\ Running
    /\ dpc = "write"
    /\ \E ok \in BOOLEAN :
          /\ attempted' = Append(attempted, [cmd |-> inhand, ok |-> ok])
          /\ dmsg' = DispStatus(inhand, ok)
          /\ port' = GuardAfterWrite(ok)
    /\ dpc' = "status"
    /\ UNCHANGED <<mainvars, cmd_chan, status_chan, actuator_chan,
                   inhand, readvars, dev_sent, sent, edition>>

\* let _ = status_tx_clone.send(format!(..)).await; it waits while the status
\* channel is full.  The `if let` ends: a guard still alive is dropped.
DispSendStatus ==
    /\ Running
    /\ dpc = "status"
    /\ Len(status_chan) < StatusCap
    /\ status_chan' = Append(status_chan, dmsg)
    /\ port' = IF port = "dispatcher" THEN "free" ELSE port
    /\ inhand' = NoCommand
    /\ dpc' = "sleep"
    /\ UNCHANGED <<mainvars, cmd_chan, actuator_chan, dmsg, attempted,
                   readvars, dev_sent, sent, edition>>

\* sleep(Duration::from_millis(50)).await
DispSleep ==
    /\ Running
    /\ dpc = "sleep"
    /\ dpc' = "recv"
    /\ UNCHANGED <<mainvars, cmd_chan, status_chan, actuator_chan, port,
                   inhand, dmsg, attempted, readvars, dev_sent, sent,
                   edition>>

\* ------------------------------------------------------- telemetry reader
\* tokio::time::sleep(10 ms).await; port_clone.write().await
ReaderAcquire ==
    /\ Running
    /\ rpc = "sleep"
    /\ port = "free"
    /\ port' = "reader"
    /\ rpc' = "read"
    /\ UNCHANGED <<mainvars, cmd_chan, status_chan, actuator_chan, dispvars,
                   rval, dev_read, dev_sent, sent>>

\* Mutant of ReaderRead: the guard kept after a read that delivered a frame.
ReaderRead_KeepsGuard ==
    /\ Running
    /\ rpc = "read"
    /\ IF dev_sent - dev_read >= FrameLen
       THEN /\ rval' = Sample(dev_read \div FrameLen + 1, dev_read % FrameLen)
            /\ dev_read' = dev_read + FrameLen
            /\ rpc' = "send"
            /\ UNCHANGED port
       ELSE /\ dev_read' = dev_sent
            /\ rpc' = "sleep"
            /\ port' = "free"
            /\ UNCHANGED rval
    /\ UNCHANGED <<mainvars, cmd_chan, status_chan, actuator_chan, dispvars,
                   dev_sent, sent>>
\* Mutant of ReaderRead: the buffer of a short read is published too.
ReaderRead_PublishesShort ==
    /\ Running
    /\ rpc = "read"
    /\ port' = "free"
    /\ IF dev_sent - dev_read >= FrameLen
       THEN /\ rval' = Sample(dev_read \div FrameLen + 1, dev_read % FrameLen)
            /\ dev_read' = dev_read + FrameLen
       ELSE /\ rval' = Sample(dev_read \div FrameLen + 1, dev_read % FrameLen)
            /\ dev_read' = dev_sent
    /\ rpc' = "send"
    /\ UNCHANGED <<mainvars, cmd_chan, status_chan, actuator_chan, dispvars,
                   dev_sent, sent>>
\* .read_exact(&mut buf) on the non-blocking stream: with 8 bytes waiting it
\* fills buf; with fewer it takes what is there and returns the error of the
\* read that found nothing.  The guard is dropped at the end of the `let`.
ReaderRead ==
    /\ Running
    /\ rpc = "read"
    /\ port' = "free"
    /\ IF dev_sent - dev_read >= FrameLen
       THEN /\ rval' = Sample(dev_read \div FrameLen + 1, dev_read % FrameLen)
            /\ dev_read' = dev_read + FrameLen
            /\ rpc' = "send"
       ELSE /\ dev_read' = dev_sent
            /\ rpc' = "sleep"
            /\ UNCHANGED rval
    /\ UNCHANGED <<mainvars, cmd_chan, status_chan, actuator_chan, dispvars,
                   dev_sent, sent>>

\* actuator_tx.send(f64::from_le_bytes(buf)).await.unwrap(); it waits while
\* the telemetry channel is full.
ReaderSend ==
    /\ Running
    /\ rpc = "send"
    /\ Len(actuator_chan) < ActuatorCap
    /\ actuator_chan' = Append(actuator_chan, rval)
    /\ rpc' = "sleep"
    /\ UNCHANGED <<mainvars, cmd_chan, status_chan, port, dispvars, rval,
                   dev_read, dev_sent, sent>>

\* The device puts n more bytes of its frame stream on the line.
DeviceSend(n) ==
    /\ Running
    /\ dev_sent + n <= FrameLen * MaxFrames
    /\ dev_sent' = dev_sent + n
    /\ UNCHANGED <<mainvars, cmd_chan, status_chan, actuator_chan, port,
                   dispvars, readvars, sent>>

\* ------------------------------------------------------- specifications
Startup ==
    \/ EnableRawMode
    \/ EnterScreen
    \/ NewTerminal
    \/ CheckArgs
    \/ OpenPort

Tick ==
    \/ DrainStatus
    \/ DrainActuator
    \/ Draw
    \/ Poll
    \/ ReadError
    \/ ReadOther

KeyArms(budget) ==
    \/ KeyStop(budget)
    \/ KeyUp(budget)
    \/ KeyDown(budget)
    \/ KeyLeft(budget)
    \/ KeyRight(budget)
    \/ KeyPlus(budget)
    \/ KeyMinus(budget)
    \/ KeySwitch(budget)

\* The keys of a whole run: a speed step of each size, a direction, the
\* switch. (SpecSpeed steps all eight arms from every speed.)
LoopKeys(budget) ==
    \/ KeyUp(budget)
    \/ KeyPlus(budget)
    \/ KeyLeft(budget)
    \/ KeySwitch(budget)

Exit ==
    \/ KeyQuit
    \/ DisableRawMode
    \/ LeaveScreen
    \/ ShowCursor
    \/ PrintAndReturn

Dispatcher ==
    \/ DispRecv
    \/ DispAcquire
    \/ DispWrite
    \/ DispSendStatus
    \/ DispSleep

ReaderPoll ==
    \/ ReaderAcquire
    \/ ReaderRead

\* The program with a device that sends no telemetry.
Next ==
    \/ Startup
    \/ Tick
    \/ LoopKeys(MaxKeys)
    \/ SendResume
    \/ Exit
    \/ Dispatcher
    \/ ReaderPoll

Spec == Init /\ [][Next]_vars

\* The Interaction Loop about to handle a key event, with the view-model at
\* any speed of the 16-bit range (every speed the keys can reach is one) and
\* either actuator selected, the channels drained and both tasks idle.  The
\* histories start here.
InitSpeed ==
    /\ mainpc = "read"
    /\ why = "none"
    /\ result = "none"
    /\ term = [raw |-> TRUE, alt |-> TRUE, mouse |-> TRUE, cursor |-> FALSE]
    /\ drawn = TRUE
    /\ printed = "none"
    /\ app \in {[AppNew EXCEPT !.speed = s, !.actuator = act,
                               !.status_message = StatusSetSpeed(s)] :
                    s \in 0 .. max_speed, act \in Actuators}
    /\ pending = [key |-> "-", cmd |-> NoCommand]
    /\ cmd_chan = <<>>
    /\ status_chan = <<>>
    /\ actuator_chan = <<>>
    /\ port = "free"
    /\ dpc = "recv"
    /\ inhand = NoCommand
    /\ dmsg = StatusReady
    /\ rpc = "sleep"
    /\ rval = Sample(0, 0)
    /\ dev_sent = 0
    /\ dev_read = 0
    /\ nkeys = 0
    /\ scenario = -1
    /\ sent = <<>>
    /\ attempted = <<>>
    /\ edition \in Editions

\* The key arms applied to every view-model speed.
NextSpeed == KeyArms(SpeedKeys)

SpecSpeed == InitSpeed /\ [][NextSpeed]_vars

\* ------------------------------------------------------------- claims
Max(a, b) == IF a >= b THEN a ELSE b
Last(q) == q[Len(q)]
IsPrefix(p, q) == Len(p) <= Len(q) /\ p = SubSeq(q, 1, Len(p))

\* The commands of the write attempts, in the order of the attempts.
AttemptedCmds == [i \in 1 .. Len(attempted) |-> attempted[i].cmd]

\* C1: in every state the keys lead to, the view-model's commanded speed is
\* at least 0 and at most max_speed = 65535.
C1_SpeedInRange ==
    /\ app.max_speed = 65535
    /\ 0 <= app.speed
    /\ app.speed <= app.max_speed

\* A decrease or a stop was pressed at speed 0 and the speed is still 0.
C1_Witness ==
    /\ nkeys = 1
    /\ app.status_message = StatusSetSpeed(0)
    /\ app.speed = 0
    /\ app.actuator = "M1"

\* C2: from every speed s, Up gives min(s + 1000, 65535), '+' gives
\* min(s + 5000, 65535), Down gives max(s - 1000, 0), '-' gives
\* max(s - 5000, 0) and 's' gives 0.
C2_SpeedSteps ==
    [][ /\ KeyUp(SpeedKeys) => app'.speed = Min(app.speed + 1000, 65535)
        /\ KeyPlus(SpeedKeys) => app'.speed = Min(app.speed + 5000, 65535)
        /\ KeyDown(SpeedKeys) => app'.speed = Max(app.speed - 1000, 0)
        /\ KeyMinus(SpeedKeys) => app'.speed = Max(app.speed - 5000, 0)
        /\ KeyStop(SpeedKeys) => app'.speed = 0
      ]_vars

\* An increase was pressed at the ceiling and the speed is still 65535.
C2_Witness ==
    /\ nkeys = 1
    /\ app.status_message = StatusSetSpeed(65535)
    /\ app.speed = 65535
    /\ sent = <<SetSpeed(65535, app.actuator)>>

\* What a speed key has to have done to the channel: one command more, a
\* SetSpeed whose 16-bit field is the new view-model speed, for the selected
\* actuator (the command waits in the send when the channel was full).
EnqueuedSpeed ==
    LET cmd == SetSpeed(app'.speed, app.actuator)
    IN  /\ cmd.speed \in 0 .. U16 - 1
        /\ app'.actuator = app.actuator
        /\ IF Len(cmd_chan) < CmdCap
           THEN /\ cmd_chan' = Append(cmd_chan, cmd)
                /\ sent' = Append(sent, cmd)
                /\ mainpc' # "send"
           ELSE /\ cmd_chan' = cmd_chan
                /\ sent' = sent
                /\ mainpc' = "send"
                /\ pending'.cmd = cmd

\* C3: each speed key (Up, Down, '+', '-', 's') enqueues exactly one
\* SetSpeed command; its 16-bit speed field equals the view-model speed after
\* the update and its actuator is the selected one.
C3_SpeedKeyEnqueues ==
    [][ (\/ KeyUp(SpeedKeys)
         \/ KeyDown(SpeedKeys)
         \/ KeyPlus(SpeedKeys)
         \/ KeyMinus(SpeedKeys)
         \/ KeyStop(SpeedKeys)) => EnqueuedSpeed
      ]_vars

\* '+' or Up at a speed whose sum passes the ceiling: SetSpeed(65535) went
\* out for the second actuator, the field not truncated.
C3_Witness ==
    /\ app.status_message.speed \in 61000 .. 65000
    /\ app.speed = 65535
    /\ sent = <<SetSpeed(65535, "M2")>>
    /\ cmd_chan = sent

\* C3, the scenario: Up, Up, '+' from the initial state leave the speed at
\* 7000 with SetSpeed 1000, 2000, 7000 enqueued in that order for the
\* initially selected actuator.  (Checked under Spec.)
C3_Scenario ==
    (scenario = Len(ScenarioKeys) /\ mainpc # "send") =>
        /\ app.speed = 7000
        /\ sent = <<SetSpeed(1000, "M1"), SetSpeed(2000, "M1"),
                    SetSpeed(7000, "M1")>>

C3_ScenarioWitness ==
    /\ scenario = Len(ScenarioKeys)
    /\ mainpc = "drain_status"
    /\ Len(attempted) = 3

\* C4: the switch-actuator key sets the speed to 0, enqueues SetSpeed(0) for
\* the actuator selected before the key, and only then toggles the
\* selection; the step that toggles enqueues that one command and no other.
C4_SwitchStopsOldActuator ==
    [][ /\ KeySwitch(MaxKeys) =>
            /\ app'.speed = 0
            /\ IF Len(cmd_chan) < CmdCap
               THEN /\ sent' = Append(sent, SetSpeed(0, app.actuator))
                    /\ app'.actuator # app.actuator
               ELSE /\ sent' = sent
                    /\ pending' = [key |-> "a", cmd |-> SetSpeed(0, app.actuator)]
                    /\ app'.actuator = app.actuator
        /\ (SendResume /\ pending.key = "a") =>
            /\ sent' = Append(sent, SetSpeed(0, app.actuator))
            /\ app'.speed = 0
            /\ app'.actuator # app.actuator
        /\ app'.actuator # app.actuator =>
            /\ app'.speed = 0
            /\ Len(sent') = Len(sent) + 1
            /\ Last(sent') = SetSpeed(0, app.actuator)
            /\ cmd_chan' = Append(cmd_chan, Last(sent'))
      ]_vars

\* The switch key was pressed at a speed above 0 with M1 selected.
C4_Witness ==
    /\ Len(sent) = 2
    /\ sent[1].op = "SetSpeed"
    /\ sent[1].speed > 0
    /\ sent[2] = SetSpeed(0, "M1")
    /\ app.actuator = "M2"
    /\ app.speed = 0

\* C5: the write attempts are made in the order in which the commands were
\* enqueued: the attempted commands are a prefix of the enqueued ones.
C5_AttemptsInEnqueueOrder == IsPrefix(AttemptedCmds, sent)

\* Three different commands, two of them queued together, all attempted.
C5_Witness ==
    /\ Len(attempted) = 3
    /\ sent[1] # sent[2]
    /\ sent[2] # sent[3]
    /\ sent[1] # sent[3]

\* C6 as claimed, at the end of the run: when main has returned, every
\* command that was enqueued has had its write attempt.
C6_NoneLostAtExit == mainpc = "done" => AttemptedCmds = sent

\* C6 as amended: every enqueued command is in time dequeued and given its
\* write attempt, unless main returns first.
C6_AttemptedUnlessExit ==
    \A i \in 1 .. MaxKeys :
        (Len(sent) >= i) ~>
            (\/ mainpc = "done"
             \/ Len(attempted) >= i /\ attempted[i].cmd = sent[i])

\* The loop is still running and every key's command has been attempted.
C6_Witness ==
    /\ mainpc = "poll"
    /\ nkeys = MaxKeys
    /\ Len(attempted) = MaxKeys
    /\ cmd_chan = <<>>

\* C7: a key event never leaves the Interaction Loop waiting in the send for
\* the dispatcher to make room in the command channel.
C7_SendNeverWaits == mainpc # "send"

\* raw mode disabled, alternate screen left, cursor shown
Restored == ~term.raw /\ ~term.alt /\ term.cursor

\* main returned the error of a set-up call (lines 52-57), resp. of a call of
\* a restore sequence.
SetupCallFailed == mainpc = "done" /\ why = "none" /\ dpc = "unspawned"
RestoreCallFailed == mainpc = "done" /\ why # "none" /\ result = "Err"

\* C8: when main has returned (missing argument, port open failure, quit
\* key, or an error of draw, poll or read), the terminal is restored.
C8_RestoredOnReturn ==
    (mainpc = "done" /\ ~SetupCallFailed /\ ~RestoreCallFailed) => Restored

StartupError == why \in {"noarg", "openfail"}

\* C9: on a start-up error whose restore calls all succeeded, the terminal
\* is restored, then the message printed, no frame drawn, no task started,
\* and main returns Ok.
C9_StartupErrorReturnsOk ==
    (mainpc = "done" /\ StartupError /\ ~RestoreCallFailed) =>
        /\ Restored
        /\ printed # "none"
        /\ ~drawn
        /\ dpc = "unspawned" /\ rpc = "unspawned"
        /\ result = "Ok"

\* What does hold on a start-up error: no frame is drawn and no task
\* started; the message is printed only with the terminal restored; main
\* returns Ok with the message printed, or the error of a failed restore
\* call, or panics in eprintln!, in both cases with no message printed.
StartupErrorRestoresFirst ==
    /\ [](StartupError =>
            /\ ~drawn
            /\ dpc = "unspawned" /\ rpc = "unspawned"
            /\ printed # "none" =>
                  /\ Restored
                  /\ printed = IF why = "noarg" THEN "usage" ELSE "open error"
            /\ mainpc = "done" =>
                  \/ result = "Ok" /\ printed # "none" /\ Restored
                  \/ result = "Panic" /\ printed = "none" /\ Restored
                  \/ result = "Err" /\ printed = "none")
    /\ [][ /\ (StartupError /\ result' = "Err") =>
                mainpc \in {"disable_raw", "leave_screen", "show_cursor", "done"}
           /\ result' = "Panic" => mainpc \in {"eprintln", "done"}
         ]_vars

\* The port could not be opened: terminal restored, message printed, Ok.
StartupErrorPrinted ==
    /\ mainpc = "done"
    /\ why = "openfail"
    /\ result = "Ok"
    /\ printed = "open error"
    /\ Restored

\* The dispatcher's command, while it has not yet attempted it.
InHand == IF dpc \in {"lock", "write"} THEN <<inhand>> ELSE <<>>

WriteFailedStep ==
    /\ Len(attempted') = Len(attempted) + 1
    /\ ~Last(attempted').ok
ReadFailedStep == rpc = "read" /\ rpc' # "read" /\ rpc' # "send"

\* C10: a failed write leaves the dispatcher on its way to the next command
\* (status, pacing sleep, recv) and a failed read leaves the reader on its
\* way to the next poll; neither touches main; no command is skipped.
C10_IOFailureNotFatal ==
    /\ [][ /\ WriteFailedStep =>
               /\ dpc' = "status"
               /\ dmsg' = StatusSerialError
               /\ UNCHANGED <<mainpc, result, rpc, cmd_chan>>
           /\ ReadFailedStep =>
               /\ rpc' = "sleep"
               /\ port' = "free"
               /\ UNCHANGED <<mainpc, result, dpc, cmd_chan, status_chan>>
           /\ (dpc = "status" /\ dpc' # "status") => dpc' = "sleep"
           /\ (dpc = "sleep" /\ dpc' # "sleep") => dpc' = "recv"
         ]_vars
    /\ [](AttemptedCmds \o InHand \o cmd_chan = sent)

\* A write failed, the next command was attempted all the same, and the
\* reader, whose every read so far failed, holds the port for another.
C10_Witness ==
    /\ Len(attempted) >= 2
    /\ ~attempted[1].ok
    /\ rpc = "read"
    /\ mainpc = "poll"

\* ---------------------------------------------------------- fairness
\* The loop entered: port open, both tasks spawned, nothing drawn yet.
InitLoop ==
    /\ mainpc = "drain_status"
    /\ why = "none"
    /\ result = "none"
    /\ term = [raw |-> TRUE, alt |-> TRUE, mouse |-> TRUE, cursor |-> TRUE]
    /\ drawn = FALSE
    /\ printed = "none"
    /\ app = AppNew
    /\ pending = [key |-> "-", cmd |-> NoCommand]
    /\ cmd_chan = <<>>
    /\ status_chan = <<>>
    /\ actuator_chan = <<>>
    /\ port = "free"
    /\ dpc = "recv"
    /\ inhand = NoCommand
    /\ dmsg = StatusReady
    /\ rpc = "sleep"
    /\ rval = Sample(0, 0)
    /\ dev_sent = 0
    /\ dev_read = 0
    /\ nkeys = 0
    /\ scenario = -1
    /\ sent = <<>>
    /\ attempted = <<>>
    /\ edition \in Editions

\* The loop with the keys Up, 'a' and 'q'.
MainLoop ==
    \/ Tick
    \/ KeyUp(MaxKeys)
    \/ KeySwitch(MaxKeys)
    \/ SendResume
    \/ KeyQuit
    \/ DisableRawMode
    \/ LeaveScreen
    \/ ShowCursor

NextLoop == MainLoop \/ Dispatcher \/ ReaderPoll

\* The runtime runs every task that can take a step; the RwLock grants its
\* waiters in turn, so a task that asks for the port again and again gets it.
Fairness ==
    /\ WF_vars(MainLoop)
    /\ WF_vars(DispRecv)
    /\ SF_vars(DispAcquire)
    /\ WF_vars(DispWrite)
    /\ WF_vars(DispSendStatus)
    /\ WF_vars(DispSleep)
    /\ WF_vars(ReaderPoll)

SpecLive == InitLoop /\ [][NextLoop]_vars /\ Fairness

\* --------------------------------------------------------- telemetry
\* The sizes in which the device's bytes reach the port: 8 bytes at once, or
\* the 5 bytes of a short read.
Bursts == {5, FrameLen}

DeviceBurst == \E n \in Bursts : DeviceSend(n)

\* The loop with the key Up, both tasks, and a device that sends frames.
NextTelemetry ==
    \/ Tick
    \/ KeyUp(TelemetryKeys)
    \/ Dispatcher
    \/ ReaderPoll
    \/ ReaderSend
    \/ DeviceBurst

FairnessTelemetry ==
    /\ WF_vars(Tick \/ KeyUp(TelemetryKeys))
    /\ WF_vars(DispRecv)
    /\ SF_vars(DispAcquire)
    /\ WF_vars(DispWrite)
    /\ WF_vars(DispSendStatus)
    /\ WF_vars(DispSleep)
    /\ WF_vars(ReaderPoll)
    /\ WF_vars(ReaderSend)

SpecTelemetry == InitLoop /\ [][NextTelemetry]_vars /\ FairnessTelemetry

\* C11: a read attempt that does not deliver 8 bytes changes neither the
\* telemetry channel, nor the status channel, nor the view-model, and sends
\* the reader back to its sleep; a sample is handed on only by a read that
\* delivered 8 bytes, and enters the channel only from there.
C11_ShortReadPublishesNothing ==
    [][ /\ ReadFailedStep =>
            /\ rpc' = "sleep"
            /\ UNCHANGED <<actuator_chan, status_chan, app, rval>>
        /\ (rpc' = "send" /\ rpc # "send") =>
            /\ rpc = "read"
            /\ dev_sent - dev_read >= FrameLen
            /\ dev_read' = dev_read + FrameLen
        /\ Len(actuator_chan') > Len(actuator_chan) =>
            /\ rpc = "send"
            /\ actuator_chan' = Append(actuator_chan, rval)
      ]_vars

\* The 5-byte read of section 8: five bytes taken, nothing published.
C11_Witness ==
    /\ dev_read = 5
    /\ rpc = "sleep"
    /\ actuator_chan = <<>>
    /\ app.actuator_len_meters = Sample(0, 0)
    /\ app.status_message = StatusReady

\* C12: the reader and the dispatcher never hold the port's lock at the same
\* time, and every read attempt and every write attempt is made by the task
\* that holds it.
C12_PortMutualExclusion ==
    /\ [](/\ rpc = "read" <=> port = "reader"
          /\ dpc = "write" => port = "dispatcher"
          /\ port = "dispatcher" => dpc \in {"write", "status"}
          /\ ~(rpc = "read" /\ dpc = "write"))
    /\ [][ /\ attempted' # attempted => (dpc = "write" /\ port = "dispatcher")
           /\ (rpc = "read" /\ rpc' # "read") => port = "reader"
           /\ dev_read' # dev_read => (rpc = "read" /\ port = "reader")
         ]_vars

\* The reader holds the port with a whole frame to read while the
\* dispatcher waits for the lock with a command to write.
C12_Witness ==
    /\ rpc = "read"
    /\ port = "reader"
    /\ dev_sent - dev_read >= FrameLen
    /\ dpc = "lock"

\* C13: whenever the loop refreshes the view-model's telemetry value, it
\* stores the newest sample the reader has published, not an older one that
\* was still waiting in the channel.
C13_NewestSampleShown ==
    [][(mainpc = "drain_actuator" /\ actuator_chan # <<>> /\ mainpc' = "draw")
          => app'.actuator_len_meters = Last(actuator_chan)]_vars

\* C14: the reader holds the port's lock only for one read attempt, never
\* while it sleeps or waits to publish a sample, and under fair scheduling
\* a dispatcher waiting for the lock gets it (unless main returns first).
C14_ReaderDoesNotStarveDispatcher ==
    /\ [](port = "reader" => rpc = "read")
    /\ [][(rpc = "read" /\ rpc' # "read") => port' = "free"]_vars
    /\ (dpc = "lock") ~> (dpc = "write" \/ mainpc = "done")

\* The dispatcher has the port while the reader waits to publish a sample
\* into the full telemetry channel.
C14_Witness ==
    /\ dpc = "write"
    /\ port = "dispatcher"
    /\ rpc = "send"
    /\ Len(actuator_chan) = ActuatorCap

\* C15: the dispatcher takes each command from the channel once, makes one
\* write attempt for it and then publishes one status, which is the
\* serial-error message exactly when that attempt failed and otherwise
\* names the command's speed, or 'forward'/'backward' for its direction.
C15_OneAttemptOneStatus ==
    /\ [](Len(attempted) + Len(InHand) = Len(sent) - Len(cmd_chan))
    /\ [][ /\ (dpc' = "lock" /\ dpc # "lock") =>
                 /\ dpc = "recv"
                 /\ cmd_chan = <<inhand'>> \o cmd_chan'
           /\ (dpc' = "write" /\ dpc # "write") => dpc = "lock"
           /\ (dpc = "write" /\ dpc' # "write") =>
                 /\ dpc' = "status"
                 /\ Len(attempted') = Len(attempted) + 1
                 /\ Last(attempted').cmd = inhand
           /\ attempted' # attempted => dpc = "write"
           /\ (dpc = "status" /\ dpc' # "status") =>
                 /\ dpc' = "sleep"
                 /\ Len(status_chan') = Len(status_chan) + 1
           /\ Len(status_chan') > Len(status_chan) =>
                 LET a == Last(attempted)
                     m == Last(status_chan')
                 IN  /\ dpc = "status"
                     /\ a.cmd = inhand
                     /\ status_chan' = Append(status_chan, m)
                     /\ (m = StatusSerialError) <=> ~a.ok
                     /\ (a.ok /\ a.cmd.op = "SetSpeed") =>
                            m = StatusSetSpeed(a.cmd.speed)
                     /\ (a.ok /\ a.cmd.op = "SetDirection") =>
                            /\ m.kind = "Set direction to"
                            /\ m.text = IF a.cmd.dir = "Forward"
                                        THEN "forward" ELSE "backward"
         ]_vars

\* A failed and a successful attempt, each with its status in the channel.
C15_Witness ==
    /\ Len(attempted) = 2
    /\ ~attempted[1].ok
    /\ attempted[2].ok
    /\ attempted[2].cmd.op = "SetDirection"
    /\ status_chan = <<StatusSerialError, StatusSetDirection("Backward")>>

\* ------------------------------------------------------- direction keys
\* The Interaction Loop about to handle a key event, at rest, one step up or
\* at the ceiling, in either direction, with either actuator selected.
InitDirection ==
    /\ mainpc = "read"
    /\ why = "none"
    /\ result = "none"
    /\ term = [raw |-> TRUE, alt |-> TRUE, mouse |-> TRUE, cursor |-> FALSE]
    /\ drawn = TRUE
    /\ printed = "none"
    /\ app \in {[AppNew EXCEPT !.speed = s, !.direction = d, !.actuator = act] :
                    s \in {0, ArrowStep, max_speed}, d \in Directions,
                    act \in Actuators}
    /\ pending = [key |-> "-", cmd |-> NoCommand]
    /\ cmd_chan = <<>>
    /\ status_chan = <<>>
    /\ actuator_chan = <<>>
    /\ port = "free"
    /\ dpc = "recv"
    /\ inhand = NoCommand
    /\ dmsg = StatusReady
    /\ rpc = "sleep"
    /\ rval = Sample(0, 0)
    /\ dev_sent = 0
    /\ dev_read = 0
    /\ nkeys = 0
    /\ scenario = -1
    /\ sent = <<>>
    /\ attempted = <<>>
    /\ edition \in Editions

\* The loop alone: its ticks and all eight key arms.
NextDirection == Tick \/ KeyArms(DirKeys)

SpecDirection == InitDirection /\ [][NextDirection]_vars

\* C16: Left sets the direction to Backward and enqueues one
\* SetDirection(Backward, selected actuator), Right does the same with
\* Forward; both leave speed and selected actuator as they were; only the
\* switch-actuator key changes the selected actuator.
C16_DirectionKeys ==
    [][ /\ KeyLeft(DirKeys) =>
            /\ app'.direction = "Backward"
            /\ sent' = Append(sent, SetDirection("Backward", app.actuator))
            /\ cmd_chan' = Append(cmd_chan, SetDirection("Backward", app.actuator))
            /\ app'.speed = app.speed
            /\ app'.actuator = app.actuator
        /\ KeyRight(DirKeys) =>
            /\ app'.direction = "Forward"
            /\ sent' = Append(sent, SetDirection("Forward", app.actuator))
            /\ cmd_chan' = Append(cmd_chan, SetDirection("Forward", app.actuator))
            /\ app'.speed = app.speed
            /\ app'.actuator = app.actuator
        /\ app'.actuator # app.actuator => KeySwitch(DirKeys)
        /\ app'.direction # app.direction => (KeyLeft(DirKeys) \/ KeyRight(DirKeys))
      ]_vars

\* Left, then Right, with M2 selected at the speed ceiling.
C16_Witness ==
    /\ sent = <<SetDirection("Backward", "M2"), SetDirection("Forward", "M2")>>
    /\ app.direction = "Forward"
    /\ app.actuator = "M2"
    /\ app.speed = max_speed

\* The last key that carried a command was the switch-actuator key: the
\* newest command is tagged with the actuator that is no longer selected.
LastKeyWasSwitch ==
    /\ sent # <<>>
    /\ Last(sent).actuator # app.actuator
    /\ mainpc # "send"

\* C17 as claimed: once the switch-actuator key was pressed, and as long as
\* no further key is pressed, the status message names the new selection.
C17_SwitchStatusPersists ==
    LastKeyWasSwitch => app.status_message = StatusSwitched(app.actuator)

\* C17 as amended: the step that toggles the selection sets the status to
\* the new selection; with no further key pressed the status changes only
\* when the loop drains a status from the status channel, and is then that
\* status (the dispatcher's report of a command).
C17_SwitchStatusUntilDrain ==
    /\ [][ /\ app'.actuator # app.actuator =>
                 app'.status_message = StatusSwitched(app'.actuator)
           /\ (/\ LastKeyWasSwitch
               /\ nkeys' = nkeys
               /\ app'.status_message # app.status_message) =>
                 /\ mainpc = "drain_status"
                 /\ status_chan # <<>>
                 /\ app'.status_message = Head(status_chan)
                 /\ status_chan' = Tail(status_chan)
         ]_vars
    /\ [](LastKeyWasSwitch =>
            \/ app.status_message = StatusSwitched(app.actuator)
            \/ app.status_message.kind \in
                   {"Set speed to", "Set direction to", "Serial error"})

\* The only key was the switch; the loop has since drained the dispatcher's
\* report of the SetSpeed(0) and shows it in place of the selection.
C17_Witness ==
    /\ nkeys = 1
    /\ sent = <<SetSpeed(0, "M1")>>
    /\ app.actuator = "M2"
    /\ app.status_message = StatusSetSpeed(0)

\* C18: every sample the reader decodes, publishes, or the view-model
\* shows is one whole frame of the device: the 8 bytes read began at a
\* frame boundary.
C18_SamplesAreWholeFrames ==
    /\ rpc = "send" => rval.shift = 0
    /\ \A i \in 1 .. Len(actuator_chan) : actuator_chan[i].shift = 0
    /\ app.actuator_len_meters.shift = 0

\* ---------------------------------------------------------- the queues
\* Keys enough to fill the command channel and the status channel with one
\* more command waiting in the loop's send and one in the dispatcher's.
QueueKeys == CmdCap + StatusCap + 2

\* The loop with the key Up, and the dispatcher.
NextQueues ==
    \/ Tick
    \/ KeyUp(QueueKeys)
    \/ SendResume
    \/ Dispatcher

SpecQueues == InitLoop /\ [][NextQueues]_vars

\* C19: in no reachable state is the loop waiting to enqueue into a full
\* command channel while the dispatcher is waiting to publish into a full
\* status channel.
C19_NoQueueDeadlock ==
    ~(/\ mainpc = "send"
      /\ Len(cmd_chan) = CmdCap
      /\ dpc = "status"
      /\ Len(status_chan) = StatusCap)

\* The dispatcher waits on the full status channel while the loop is in its
\* send, which the dispatcher's last recv has made room for.
C19_Witness ==
    /\ mainpc = "send"
    /\ dpc = "status"
    /\ Len(status_chan) = StatusCap
    /\ Len(cmd_chan) < CmdCap
====
